---- MODULE Spec2Model ----
(***************************************************************************)
(* A model of the Tasmanian plant-passport assistant: the structured       *)
(* commodity/pest database (tas_data.py), the pest table (data/table_1.py) *)
(* and the fruit fly assessment tool (tas_tools.py).                       *)
(*                                                                         *)
(* A Python str is modelled as a sequence of one-character strings, so     *)
(* that lower(), strip(), split() and the substring test are computed and  *)
(* not assumed.  An Optional value is a sequence of length 0 (None) or 1    *)
(* (the value), a list is a sequence, a set is a set, and a dict is the    *)
(* sequence of its [key, info] items in insertion order.                   *)
(***************************************************************************)
EXTENDS Integers, Sequences, FiniteSets, TLC

VARIABLES
    pc,              \* position of CommodityDatabase.__init__: new, pests, loading, ready, failed
    commodities,     \* self.commodities, in insertion order: a sequence of [key, info]
    ir_info,         \* self.ir_info, in insertion order: a sequence of [key, info]
    ica_info,        \* self.ica_info, in insertion order: a sequence of [key, info]
    pest_info,       \* self.pest_info, in insertion order: a sequence of PestInfo
    nfiles,          \* cleaned files handed to _load_cleaned_data so far
    op,              \* the last public lookup method called, with its argument
    result,          \* what that call returned
    fruit_fly_db,    \* the fruit fly host table behind tas_data.fruit_fly_db
    a_query,         \* fruit_fly_assessment: the query argument
    a_state,         \* fruit_fly_assessment: the origin_state argument
    a_ret,           \* fruit_fly_assessment: no line, then the lines of the returned text
    a_calls,         \* fruit_fly_assessment: the fruit_fly_db methods that call used, in order
    a_risk,          \* fruit_fly_assessment: None, or the risk_assessment it went on with
    n_name,          \* _normalize_commodity_name: the argument
    n_ret            \* _normalize_commodity_name: None, then its result

vars == <<pc, commodities, ir_info, ica_info, pest_info, nfiles, op, result,
          fruit_fly_db, a_query, a_state, a_ret, a_calls, a_risk, n_name, n_ret>>

dbVars == <<pc, commodities, ir_info, ica_info, pest_info, nfiles, op, result>>
toolVars == <<fruit_fly_db, a_query, a_state, a_ret, a_calls, a_risk>>
normVars == <<n_name, n_ret>>

----------------------------------------------------------------------------
(* Bounds of the model. *)

\* longest run of whitespace put before and after a name or a query
MaxPad == 1

\* most rows in one cleaned table
MaxRows == 2

\* most cleaned files in the directory
MaxFiles == 2

\* most commodities in the fruit fly host table
MaxHosts == 2

----------------------------------------------------------------------------
(* Python str operations. *)

None == <<>>
Some(x) == <<x>>
Val(o) == o[1]

LowerLetters == <<"a","b","c","d","e","f","g","h","i","j","k","l","m",
                  "n","o","p","q","r","s","t","u","v","w","x","y","z">>
UpperLetters == <<"A","B","C","D","E","F","G","H","I","J","K","L","M",
                  "N","O","P","Q","R","S","T","U","V","W","X","Y","Z">>

\* the whitespace characters of the model: str.strip() removes these
Whitespace == {" ", "\t"}

\* the lower-case letter of each upper-case letter, and the reverse
UpperToLower ==
    [c \in {UpperLetters[i] : i \in 1..Len(UpperLetters)} |->
        LowerLetters[CHOOSE i \in 1..Len(UpperLetters) : UpperLetters[i] = c]]

LowerToUpper ==
    [c \in {LowerLetters[i] : i \in 1..Len(LowerLetters)} |->
        UpperLetters[CHOOSE i \in 1..Len(LowerLetters) : LowerLetters[i] = c]]

LowerChar(c) == IF c \in DOMAIN UpperToLower THEN UpperToLower[c] ELSE c

UpperChar(c) == IF c \in DOMAIN LowerToUpper THEN LowerToUpper[c] ELSE c

\* str.lower()
Lower(s) == IF s = <<>> THEN <<>> ELSE [i \in 1..Len(s) |-> LowerChar(s[i])]

RECURSIVE LStrip(_)
LStrip(s) ==
    IF s /= <<>> /\ Head(s) \in Whitespace THEN LStrip(Tail(s)) ELSE s

RECURSIVE RStrip(_)
RStrip(s) ==
    IF s /= <<>> /\ s[Len(s)] \in Whitespace
    THEN RStrip(SubSeq(s, 1, Len(s) - 1))
    ELSE s

\* str.strip()
Strip(s) == RStrip(LStrip(s))

\* sub in s, for two strs
Contains(sub, s) ==
    \E i \in 0..(Len(s) - Len(sub)) : SubSeq(s, i + 1, i + Len(sub)) = sub

\* x in xs, for a list xs
InList(x, xs) == \E i \in 1..Len(xs) : xs[i] = x

\* the truth value of an Optional[str]: None and "" are false
Truthy(o) == o /= None /\ Val(o) /= <<>>

\* d.get(key, default) for an Optional[str] column
GetOr(o, default) == IF o = None THEN default ELSE Val(o)

\* the index of the first sep in s, 0 when there is none
FirstIndex(s, sep) ==
    IF \E i \in 1..Len(s) : s[i] = sep
    THEN CHOOSE i \in 1..Len(s) : s[i] = sep /\ \A j \in 1..(i - 1) : s[j] /= sep
    ELSE 0

\* s.split(sep, 1)
Split1(s, sep) ==
    LET i == FirstIndex(s, sep)
    IN  IF i = 0 THEN <<s>>
        ELSE <<SubSeq(s, 1, i - 1), SubSeq(s, i + 1, Len(s))>>

----------------------------------------------------------------------------
(* tas_tools.py: _normalize_commodity_name. *)

\* The dict display of the source, one entry per distinct key (a key the
\* source writes twice carries the same value both times).
plural_to_singular ==
       (<<"a","p","p","l","e","s">> :> <<"a","p","p","l","e">>)
    @@ (<<"g","r","a","p","e","s">> :> <<"g","r","a","p","e">>)
    @@ (<<"s","t","r","a","w","b","e","r","r","i","e","s">> :> <<"s","t","r","a","w","b","e","r","r","y">>)
    @@ (<<"b","a","n","a","n","a","s">> :> <<"b","a","n","a","n","a">>)
    @@ (<<"o","r","a","n","g","e","s">> :> <<"s","w","e","e","t"," ","o","r","a","n","g","e">>)
    @@ (<<"l","e","m","o","n","s">> :> <<"l","e","m","o","n">>)
    @@ (<<"l","i","m","e","s">> :> <<"l","i","m","e">>)
    @@ (<<"p","e","a","c","h","e","s">> :> <<"p","e","a","c","h">>)
    @@ (<<"n","e","c","t","a","r","i","n","e","s">> :> <<"n","e","c","t","a","r","i","n","e">>)
    @@ (<<"p","l","u","m","s">> :> <<"p","l","u","m">>)
    @@ (<<"c","h","e","r","r","i","e","s">> :> <<"s","w","e","e","t"," ","c","h","e","r","r","y">>)
    @@ (<<"a","p","r","i","c","o","t","s">> :> <<"a","p","r","i","c","o","t">>)
    @@ (<<"p","e","a","r","s">> :> <<"p","e","a","r">>)
    @@ (<<"m","a","n","g","o","e","s">> :> <<"m","a","n","g","o">>)
    @@ (<<"m","a","n","g","o","s">> :> <<"m","a","n","g","o">>)
    @@ (<<"a","v","o","c","a","d","o","s">> :> <<"a","v","o","c","a","d","o">>)
    @@ (<<"t","o","m","a","t","o","e","s">> :> <<"t","o","m","a","t","o">>)
    @@ (<<"c","a","p","s","i","c","u","m","s">> :> <<"c","a","p","s","i","c","u","m">>)
    @@ (<<"c","h","i","l","l","i","e","s">> :> <<"c","h","i","l","l","i">>)
    @@ (<<"c","h","i","l","i","s">> :> <<"c","h","i","l","l","i">>)
    @@ (<<"p","a","p","a","y","a","s">> :> <<"p","a","p","a","y","a">>)
    @@ (<<"g","u","a","v","a","s">> :> <<"g","u","a","v","a">>)
    @@ (<<"l","y","c","h","e","e","s">> :> <<"l","y","c","h","e","e">>)
    @@ (<<"l","o","n","g","a","n","s">> :> <<"l","o","n","g","a","n">>)
    @@ (<<"r","a","m","b","u","t","a","n","s">> :> <<"r","a","m","b","u","t","a","n">>)
    @@ (<<"p","a","s","s","i","o","n","f","r","u","i","t","s">> :> <<"p","a","s","s","i","o","n","f","r","u","i","t">>)
    @@ (<<"d","r","a","g","o","n","f","r","u","i","t","s">> :> <<"d","r","a","g","o","n"," ","f","r","u","i","t">>)
    @@ (<<"d","r","a","g","o","n"," ","f","r","u","i","t","s">> :> <<"d","r","a","g","o","n"," ","f","r","u","i","t">>)
    @@ (<<"c","u","s","t","a","r","d"," ","a","p","p","l","e","s">> :> <<"c","u","s","t","a","r","d"," ","a","p","p","l","e">>)
    @@ (<<"b","r","e","a","d","f","r","u","i","t","s">> :> <<"b","r","e","a","d","f","r","u","i","t">>)
    @@ (<<"j","a","c","k","f","r","u","i","t","s">> :> <<"j","a","c","k","f","r","u","i","t">>)
    @@ (<<"s","t","a","r","f","r","u","i","t","s">> :> <<"s","t","a","r"," ","f","r","u","i","t">>)
    @@ (<<"s","t","a","r"," ","f","r","u","i","t","s">> :> <<"s","t","a","r"," ","f","r","u","i","t">>)
    @@ (<<"f","e","i","j","o","a","s">> :> <<"f","e","i","j","o","a">>)
    @@ (<<"k","i","w","i","f","r","u","i","t","s">> :> <<"k","i","w","i","f","r","u","i","t">>)
    @@ (<<"k","i","w","i"," ","f","r","u","i","t","s">> :> <<"k","i","w","i","f","r","u","i","t">>)
    @@ (<<"p","e","r","s","i","m","m","o","n","s">> :> <<"p","e","r","s","i","m","m","o","n">>)
    @@ (<<"f","i","g","s">> :> <<"f","i","g">>)
    @@ (<<"q","u","i","n","c","e","s">> :> <<"q","u","i","n","c","e">>)
    @@ (<<"t","a","m","a","r","i","l","l","o","s">> :> <<"t","a","m","a","r","i","l","l","o">>)
    @@ (<<"l","o","q","u","a","t","s">> :> <<"l","o","q","u","a","t">>)
    @@ (<<"k","u","m","q","u","a","t","s">> :> <<"k","u","m","q","u","a","t">>)
    @@ (<<"p","o","m","e","g","r","a","n","a","t","e","s">> :> <<"p","o","m","e","g","r","a","n","a","t","e">>)
    @@ (<<"n","a","s","h","i","s">> :> <<"n","a","s","h","i">>)
    @@ (<<"r","o","l","l","i","n","i","a","s">> :> <<"r","o","l","l","i","n","i","a">>)
    @@ (<<"b","l","a","c","k","b","e","r","r","i","e","s">> :> <<"b","l","a","c","k","b","e","r","r","y">>)
    @@ (<<"r","a","s","p","b","e","r","r","i","e","s">> :> <<"r","a","s","p","b","e","r","r","y">>)
    @@ (<<"l","o","g","a","n","b","e","r","r","i","e","s">> :> <<"l","o","g","a","n","b","e","r","r","y">>)
    @@ (<<"b","o","y","s","e","n","b","e","r","r","i","e","s">> :> <<"b","o","y","s","e","n","b","e","r","r","y">>)
    @@ (<<"y","o","u","n","g","b","e","r","r","i","e","s">> :> <<"y","o","u","n","g","b","e","r","r","y">>)
    @@ (<<"b","l","u","e","b","e","r","r","i","e","s">> :> <<"b","l","u","e","b","e","r","r","y">>)
    @@ (<<"d","a","t","e","s">> :> <<"d","a","t","e">>)
    @@ (<<"o","l","i","v","e","s">> :> <<"o","l","i","v","e">>)
    @@ (<<"c","o","f","f","e","e"," ","c","h","e","r","r","i","e","s">> :> <<"c","o","f","f","e","e"," ","c","h","e","r","r","y">>)
    @@ (<<"c","o","f","f","e","e"," ","b","e","a","n","s">> :> <<"c","o","f","f","e","e"," ","c","h","e","r","r","y">>)
    @@ (<<"e","g","g","p","l","a","n","t","s">> :> <<"e","g","g","p","l","a","n","t">>)
    @@ (<<"a","u","b","e","r","g","i","n","e","s">> :> <<"e","g","g","p","l","a","n","t">>)
    @@ (<<"p","e","p","i","n","o","s">> :> <<"p","e","p","i","n","o">>)
    @@ (<<"t","a","b","l","e"," ","g","r","a","p","e","s">> :> <<"g","r","a","p","e">>)
    @@ (<<"w","i","n","e"," ","g","r","a","p","e","s">> :> <<"g","r","a","p","e">>)
    @@ (<<"s","e","e","d","l","e","s","s"," ","g","r","a","p","e","s">> :> <<"g","r","a","p","e">>)
    @@ (<<"r","e","d"," ","g","r","a","p","e","s">> :> <<"g","r","a","p","e">>)
    @@ (<<"w","h","i","t","e"," ","g","r","a","p","e","s">> :> <<"g","r","a","p","e">>)
    @@ (<<"g","r","e","e","n"," ","g","r","a","p","e","s">> :> <<"g","r","a","p","e">>)
    @@ (<<"b","l","a","c","k"," ","g","r","a","p","e","s">> :> <<"g","r","a","p","e">>)
    @@ (<<"s","w","e","e","t"," ","o","r","a","n","g","e","s">> :> <<"s","w","e","e","t"," ","o","r","a","n","g","e">>)
    @@ (<<"n","a","v","e","l"," ","o","r","a","n","g","e","s">> :> <<"s","w","e","e","t"," ","o","r","a","n","g","e">>)
    @@ (<<"v","a","l","e","n","c","i","a"," ","o","r","a","n","g","e","s">> :> <<"s","w","e","e","t"," ","o","r","a","n","g","e">>)
    @@ (<<"b","l","o","o","d"," ","o","r","a","n","g","e","s">> :> <<"s","w","e","e","t"," ","o","r","a","n","g","e">>)
    @@ (<<"m","a","n","d","a","r","i","n","s">> :> <<"m","a","n","d","a","r","i","n">>)
    @@ (<<"t","a","n","g","e","r","i","n","e","s">> :> <<"m","a","n","d","a","r","i","n">>)
    @@ (<<"c","l","e","m","e","n","t","i","n","e","s">> :> <<"m","a","n","d","a","r","i","n">>)
    @@ (<<"s","a","t","s","u","m","a","s">> :> <<"m","a","n","d","a","r","i","n">>)
    @@ (<<"g","r","a","p","e","f","r","u","i","t","s">> :> <<"g","r","a","p","e","f","r","u","i","t">>)
    @@ (<<"p","i","n","k"," ","g","r","a","p","e","f","r","u","i","t","s">> :> <<"g","r","a","p","e","f","r","u","i","t">>)
    @@ (<<"w","h","i","t","e"," ","g","r","a","p","e","f","r","u","i","t","s">> :> <<"g","r","a","p","e","f","r","u","i","t">>)
    @@ (<<"r","e","d"," ","g","r","a","p","e","f","r","u","i","t","s">> :> <<"g","r","a","p","e","f","r","u","i","t">>)
    @@ (<<"p","o","m","e","l","o","s">> :> <<"p","u","m","m","e","l","o">>)
    @@ (<<"p","u","m","m","e","l","o","s">> :> <<"p","u","m","m","e","l","o">>)
    @@ (<<"t","a","n","g","e","l","o","s">> :> <<"t","a","n","g","e","l","o">>)
    @@ (<<"c","i","t","r","o","n","s">> :> <<"c","i","t","r","o","n">>)
    @@ (<<"m","e","y","e","r"," ","l","e","m","o","n","s">> :> <<"m","e","y","e","r"," ","l","e","m","o","n">>)
    @@ (<<"r","a","n","g","p","u","r"," ","l","i","m","e","s">> :> <<"r","a","n","g","p","u","r"," ","l","i","m","e">>)
    @@ (<<"t","a","h","i","t","i","a","n"," ","l","i","m","e","s">> :> <<"t","a","h","i","t","i","a","n"," ","l","i","m","e">>)
    @@ (<<"s","e","v","i","l","l","e"," ","o","r","a","n","g","e","s">> :> <<"s","e","v","i","l","l","e"," ","o","r","a","n","g","e">>)
    @@ (<<"d","e","s","e","r","t"," ","l","i","m","e","s">> :> <<"d","e","s","e","r","t"," ","l","i","m","e">>)
    @@ (<<"j","a","p","a","n","e","s","e"," ","p","l","u","m","s">> :> <<"j","a","p","a","n","e","s","e"," ","p","l","u","m">>)
    @@ (<<"s","o","u","r"," ","c","h","e","r","r","i","e","s">> :> <<"s","o","u","r"," ","c","h","e","r","r","y">>)
    @@ (<<"p","l","u","m","c","o","t","s">> :> <<"p","l","u","m","c","o","t">>)
    @@ (<<"p","e","a","c","h","a","r","i","n","e","s">> :> <<"p","e","a","c","h","a","r","i","n","e">>)
    @@ (<<"b","l","a","c","k"," ","s","a","p","o","t","e","s">> :> <<"b","l","a","c","k"," ","s","a","p","o","t","e">>)
    @@ (<<"w","h","i","t","e"," ","s","a","p","o","t","e","s">> :> <<"w","h","i","t","e"," ","s","a","p","o","t","e">>)
    @@ (<<"s","t","a","r"," ","a","p","p","l","e","s">> :> <<"s","t","a","r"," ","a","p","p","l","e">>)
    @@ (<<"r","o","s","e"," ","a","p","p","l","e","s">> :> <<"r","o","s","e"," ","a","p","p","l","e">>)
    @@ (<<"m","o","u","n","t","a","i","n"," ","a","p","p","l","e","s">> :> <<"m","o","u","n","t","a","i","n"," ","a","p","p","l","e">>)
    @@ (<<"w","a","x"," ","a","p","p","l","e","s">> :> <<"w","a","x"," ","a","p","p","l","e">>)
    @@ (<<"s","p","a","n","i","s","h"," ","c","h","e","r","r","i","e","s">> :> <<"s","p","a","n","i","s","h"," ","c","h","e","r","r","y">>)
    @@ (<<"m","a","d","a","g","a","s","c","a","r"," ","o","l","i","v","e","s">> :> <<"m","a","d","a","g","a","s","c","a","r"," ","o","l","i","v","e">>)
    @@ (<<"b","o","u","r","b","o","n"," ","o","r","a","n","g","e","s">> :> <<"b","o","u","r","b","o","n"," ","o","r","a","n","g","e">>)
    @@ (<<"m","a","m","e","y"," ","s","a","p","o","t","e","s">> :> <<"m","a","m","e","y"," ","s","a","p","o","t","e">>)
    @@ (<<"s","u","r","i","n","a","m"," ","c","h","e","r","r","i","e","s">> :> <<"s","u","r","i","n","a","m"," ","c","h","e","r","r","y">>)
    @@ (<<"g","r","u","m","i","c","h","a","m","a","s">> :> <<"g","r","u","m","i","c","h","a","m","a">>)
    @@ (<<"j","a","b","o","t","i","c","a","b","a","s">> :> <<"j","a","b","o","t","i","c","a","b","a">>)
    @@ (<<"m","o","n","s","t","e","r","a","s">> :> <<"m","o","n","s","t","e","r","a">>)
    @@ (<<"m","u","l","b","e","r","r","i","e","s">> :> <<"m","u","l","b","e","r","r","y">>)
    @@ (<<"m","o","c","k"," ","o","r","a","n","g","e","s">> :> <<"m","o","c","k"," ","o","r","a","n","g","e">>)
    @@ (<<"g","r","a","n","a","d","i","l","l","a","s">> :> <<"g","r","a","n","a","d","i","l","l","a">>)
    @@ (<<"c","a","p","e"," ","g","o","o","s","e","b","e","r","r","i","e","s">> :> <<"c","a","p","e"," ","g","o","o","s","e","b","e","r","r","y">>)
    @@ (<<"a","b","i","u","s">> :> <<"a","b","i","u">>)
    @@ (<<"d","u","r","i","a","n","s">> :> <<"d","u","r","i","a","n">>)
    @@ (<<"m","a","n","g","o","s","t","e","e","n","s">> :> <<"m","a","n","g","o","s","t","e","e","n">>)
    @@ (<<"w","a","l","n","u","t","s">> :> <<"w","a","l","n","u","t">>)
    @@ (<<"a","c","e","r","o","a","s">> :> <<"a","c","e","r","o","l","a">>)
    @@ (<<"c","r","a","b"," ","a","p","p","l","e","s">> :> <<"c","r","a","b"," ","a","p","p","l","e">>)
    @@ (<<"s","a","p","o","d","i","l","l","a","s">> :> <<"s","a","p","o","d","i","l","l","a">>)
    @@ (<<"j","a","p","a","n","e","s","e"," ","p","e","r","s","i","m","m","o","n","s">> :> <<"j","a","p","a","n","e","s","e"," ","p","e","r","s","i","m","m","o","n">>)
    @@ (<<"t","r","o","p","i","c","a","l"," ","a","l","m","o","n","d","s">> :> <<"t","r","o","p","i","c","a","l"," ","a","l","m","o","n","d">>)
    @@ (<<"c","h","e","b","u","l","i","c"," ","m","y","r","o","b","a","l","a","n","s">> :> <<"c","h","e","b","u","l","i","c"," ","m","y","r","o","b","a","l","a","n">>)
    @@ (<<"c","a","c","a","o","s">> :> <<"c","a","c","a","o">>)
    @@ (<<"c","a","s","h","e","w"," ","a","p","p","l","e","s">> :> <<"c","a","s","h","e","w"," ","a","p","p","l","e">>)
    @@ (<<"c","h","e","r","i","m","o","y","a","s">> :> <<"c","h","e","r","i","m","o","y","a">>)
    @@ (<<"p","o","n","d"," ","a","p","p","l","e","s">> :> <<"p","o","n","d"," ","a","p","p","l","e">>)
    @@ (<<"s","o","u","r","s","o","p","s">> :> <<"s","o","u","r","s","o","p">>)
    @@ (<<"a","k","e","e"," ","a","p","p","l","e","s">> :> <<"a","k","e","e"," ","a","p","p","l","e">>)
    @@ (<<"b","a","b","a","c","o","s">> :> <<"b","a","b","a","c","o">>)
    @@ (<<"n","a","t","a","l"," ","p","l","u","m","s">> :> <<"n","a","t","a","l"," ","p","l","u","m">>)
    @@ (<<"h","a","w","t","h","o","r","n","s">> :> <<"h","a","w","t","h","o","r","n">>)
    @@ (<<"e","x","c","e","l","s","a"," ","c","o","f","f","e","e","s">> :> <<"e","x","c","e","l","s","a"," ","c","o","f","f","e","e">>)
    @@ (<<"l","i","b","e","r","i","a","n"," ","c","o","f","f","e","e","s">> :> <<"l","i","b","e","r","i","a","n"," ","c","o","f","f","e","e">>)
    @@ (<<"r","o","b","u","s","t","a"," ","c","o","f","f","e","e","s">> :> <<"r","o","b","u","s","t","a"," ","c","o","f","f","e","e">>)
    @@ (<<"l","i","l","l","y"," ","p","i","l","l","i","e","s">> :> <<"l","i","l","l","y"," ","p","i","l","l","y">>)
    @@ (<<"j","e","r","u","s","a","l","e","m"," ","c","h","e","r","r","i","e","s">> :> <<"j","e","r","u","s","a","l","e","m"," ","c","h","e","r","r","y">>)
    @@ (<<"j","e","w"," ","p","l","u","m","s">> :> <<"j","e","w"," ","p","l","u","m">>)
    @@ (<<"j","a","m","b","u","s">> :> <<"j","a","m","b","u">>)
    @@ (<<"p","r","i","c","k","l","y"," ","p","e","a","r","s">> :> <<"p","r","i","c","k","l","y"," ","p","e","a","r">>)
    @@ (<<"a","l","m","o","n","d","s">> :> <<"a","l","m","o","n","d">>)
    @@ (<<"s","w","e","e","t"," ","c","h","e","r","r","i","e","s">> :> <<"s","w","e","e","t"," ","c","h","e","r","r","y">>)
    @@ (<<"m","o","m","b","i","n","s">> :> <<"m","o","m","b","i","n">>)

\* the normaliser without strip(): padding is kept
NormalizeKeepsPadding(commodity_name) ==
    LET name == Lower(commodity_name)
    IN  IF name \in DOMAIN plural_to_singular
        THEN plural_to_singular[name]
        ELSE name

\* the normaliser without lower(): a name is matched in the case it was typed
NormalizeKeepsCase(commodity_name) ==
    LET name == Strip(commodity_name)
    IN  IF name \in DOMAIN plural_to_singular
        THEN plural_to_singular[name]
        ELSE name

_normalize_commodity_name(commodity_name) ==
    LET name == Strip(Lower(commodity_name))
    IN  IF name \in DOMAIN plural_to_singular
        THEN plural_to_singular[name]
        ELSE name

----------------------------------------------------------------------------
(* data/table_1.py: the pest table, in the order of the source. *)

TABLE_1 == <<
       [code |-> <<"B","W">>, name |-> <<"B","a","c","t","e","r","i","a","l"," ","W","i","l","t">>,
        present_in |-> <<>>]
    ,  [code |-> <<"C","B">>, name |-> <<"C","h","i","c","k","p","e","a"," ","B","l","i","g","h","t">>,
        present_in |-> <<>>]
    ,  [code |-> <<"D","W">>, name |-> <<"D","e","c","l","a","r","e","d"," ","W","e","e","d","s">>,
        present_in |-> <<<<"Q","L","D">>, <<"N","S","W">>, <<"V","I","C">>, <<"W","A">>, <<"N","T">>, <<"S","A">>>>]
    ,  [code |-> <<"E","H","B">>, name |-> <<"E","u","r","o","p","e","a","n"," ","H","o","u","s","e"," ","B","o","r","e","r">>,
        present_in |-> <<<<"W","A">>>>]
    ,  [code |-> <<"F","B">>, name |-> <<"F","i","r","e"," ","B","l","i","g","h","t">>,
        present_in |-> <<>>]
    ,  [code |-> <<"G","M","P">>, name |-> <<"G","e","n","e","t","i","c","a","l","l","y"," ","M","o","d","i","f","i","e","d"," ","P","l","a","n","t","s">>,
        present_in |-> <<<<"Q","L","D">>, <<"N","S","W">>, <<"V","I","C">>, <<"W","A">>, <<"N","T">>, <<"S","A">>>>]
    ,  [code |-> <<"G","P">>, name |-> <<"G","r","a","p","e"," ","P","h","y","l","l","o","x","e","r","a">>,
        present_in |-> <<<<"N","S","W">>, <<"V","I","C">>>>]
    ,  [code |-> <<"I","Y","S","V">>, name |-> <<"I","r","i","s"," ","Y","e","l","l","o","w"," ","S","p","o","t"," ","V","i","r","u","s">>,
        present_in |-> <<>>]
    ,  [code |-> <<"L","A">>, name |-> <<"L","u","p","i","n"," ","A","n","t","h","r","a","c","n","o","s","e">>,
        present_in |-> <<<<"W","A">>, <<"S","A">>>>]
    ,  [code |-> <<"M","F","F">>, name |-> <<"M","e","d","i","t","e","r","r","a","n","e","a","n"," ","F","r","u","i","t"," ","F","l","y">>,
        present_in |-> <<<<"W","A">>>>]
    ,  [code |-> <<"M","R">>, name |-> <<"M","y","r","t","l","e"," ","R","u","s","t">>,
        present_in |-> <<<<"Q","L","D">>, <<"N","S","W">>, <<"V","I","C">>>>]
    ,  [code |-> <<"N","S">>, name |-> <<"N","u","r","s","e","r","y"," ","S","t","o","c","k">>,
        present_in |-> <<>>]
    ,  [code |-> <<"O","S">>, name |-> <<"O","n","i","o","n"," ","S","m","u","t">>,
        present_in |-> <<<<"S","A">>>>]
    ,  [code |-> <<"P","C","N">>, name |-> <<"P","o","t","a","t","o"," ","C","y","s","t"," ","N","e","m","a","t","o","d","e">>,
        present_in |-> <<<<"V","I","C">>>>]
    ,  [code |-> <<"P","W">>, name |-> <<"P","e","a"," ","W","e","e","v","i","l">>,
        present_in |-> <<>>]
    ,  [code |-> <<"Q","F","F">>, name |-> <<"Q","u","e","e","n","s","l","a","n","d"," ","F","r","u","i","t"," ","F","l","y">>,
        present_in |-> <<<<"Q","L","D">>, <<"N","S","W">>, <<"V","I","C">>, <<"N","T">>>>]
    ,  [code |-> <<"R","I","F","A">>, name |-> <<"R","e","d"," ","I","m","p","o","r","t","e","d"," ","F","i","r","e"," ","A","n","t">>,
        present_in |-> <<<<"Q","L","D">>, <<"N","S","W">>>>]
    ,  [code |-> <<"R","N">>, name |-> <<"R","y","e","g","r","a","s","s"," ","N","e","m","a","t","o","d","e">>,
        present_in |-> <<>>]
    ,  [code |-> <<"S","L","W">>, name |-> <<"S","i","l","v","e","r","l","e","a","f"," ","W","h","i","t","e","f","l","y">>,
        present_in |-> <<<<"Q","L","D">>>>]
    ,  [code |-> <<"T","P","P">>, name |-> <<"T","o","m","a","t","o"," ","P","o","t","a","t","o"," ","P","s","y","l","l","i","d">>,
        present_in |-> <<<<"W","A">>>>]
    ,  [code |-> <<"T","Y","L","C","V">>, name |-> <<"T","o","m","a","t","o"," ","Y","e","l","l","o","w"," ","L","e","a","f"," ","C","u","r","l"," ","V","i","r","u","s">>,
        present_in |-> <<<<"Q","L","D">>, <<"N","T">>>>]
    >>

----------------------------------------------------------------------------
(* Python dict, kept in insertion order. *)

DictHas(d, k) == \E i \in 1..Len(d) : d[i].key = k

DictIndex(d, k) == CHOOSE i \in 1..Len(d) : d[i].key = k

\* d.get(k)
DictGet(d, k) == IF DictHas(d, k) THEN Some(d[DictIndex(d, k)].info) ELSE None

\* d[k] = v: an existing key keeps its place
DictSet(d, k, v) ==
    IF DictHas(d, k)
    THEN [d EXCEPT ![DictIndex(d, k)].info = v]
    ELSE Append(d, [key |-> k, info |-> v])

\* list(d.values())
DictValues(d) == IF d = <<>> THEN <<>> ELSE [i \in 1..Len(d) |-> d[i].info]

DictKeys(d) == {d[i].key : i \in 1..Len(d)}

\* the first sep-separated piece of s and the rest: s.split(sep), piece by piece
RECURSIVE Split(_, _)
Split(s, sep) ==
    LET i == FirstIndex(s, sep)
    IN  IF i = 0 THEN <<s>>
        ELSE <<SubSeq(s, 1, i - 1)>> \o Split(SubSeq(s, i + 1, Len(s)), sep)

\* [x.strip() for x in xs]
StripAll(xs) == IF xs = <<>> THEN <<>> ELSE [i \in 1..Len(xs) |-> Strip(xs[i])]

\* set(xs)
ToSet(xs) == {xs[i] : i \in 1..Len(xs)}

----------------------------------------------------------------------------
(* tas_data.py: the records. *)

S_QFF == <<"Q","F","F">>
S_MFF == <<"M","F","F">>
S_seed == <<"s","e","e","d">>
S_plant == <<"p","l","a","n","t">>

\* class CommodityType
CommodityType == {"fruit", "plant", "seed", "grain", "equipment", "other"}

\* the PestInfo that _load_pest_info builds for one item of table_1.pest_info
PestInfo(code, info) ==
    [code          |-> code,
     name          |-> info.name,
     present_in    |-> info.present_in,
     is_fruit_fly  |-> code \in {S_QFF, S_MFF},
     is_phylloxera |-> code = <<"G","P">>,
     is_weed       |-> code = <<"D","W">>,
     is_gm         |-> code = <<"G","M","P">>]

ICAInfo(number, title, status, applicable_irs) ==
    [number |-> number, title |-> title, status |-> status,
     applicable_irs |-> applicable_irs]

IRInfo(number, title, applicable_icas, is_revoked) ==
    [number |-> number, title |-> title,
     applicable_icas |-> applicable_icas, is_revoked |-> is_revoked]

PhylloxeraZoneInfo(pez, prz, piz) ==
    [pez_requirements |-> pez, prz_requirements |-> prz, piz_requirements |-> piz]

\* CommodityInfo(...) with the dataclass defaults for the fields no caller passes
CommodityInfo(name, commodity_type, botanical_name, ir_numbers, pests, is_fruit_fly_host, qff_host, mff_host, restricted_entry) ==
    [name              |-> name,
     commodity_type    |-> commodity_type,
     botanical_name    |-> botanical_name,
     ir_numbers        |-> ir_numbers,
     pests             |-> pests,
     is_fruit_fly_host |-> is_fruit_fly_host,
     qff_host          |-> qff_host,
     mff_host          |-> mff_host,
     restricted_entry  |-> restricted_entry,
     phylloxera_info   |-> None,
     parent_commodity  |-> None,
     alternative_names |-> None]

\* A row of a cleaned table: a dict from column header to text.  A column the
\* row does not have is None (what row.get returns for it).
EmptyRow ==
    [Common_Name |-> None, Botanical_Name |-> None, QFF |-> None, MFF |-> None,
     Host |-> None, PEZ_Requirements |-> None, PRZ_Requirements |-> None,
     PIZ_Requirements |-> None,
     Commodity |-> None, IR |-> None, Pests |-> None,
     IR_Number |-> None, IR_Title |-> None, ICA_Equivalent |-> None]

----------------------------------------------------------------------------
(* tas_data.py: CommodityDatabase, loading. *)

\* _load_pest_info: one PestInfo per item of table_1.pest_info
RECURSIVE LoadPests(_, _)
LoadPests(d, items) ==
    IF items = <<>> THEN d
    ELSE LoadPests(DictSet(d, Head(items).code, PestInfo(Head(items).code, Head(items))),
                   Tail(items))

_load_pest_info(d) == LoadPests(d, TABLE_1)

\* the pass that files the commodity under its name as written
FruitFlyHostRowKeyedByName(c, row) ==
    IF ~Truthy(row.Botanical_Name) \/ ~Truthy(row.Common_Name) THEN c
    ELSE LET name      == Strip(Val(row.Common_Name))
             botanical == Strip(Val(row.Botanical_Name))
         IN  DictSet(c, name,
                     CommodityInfo(name, "fruit", Some(botanical), None, None, TRUE,
                                   Contains(S_QFF, GetOr(row.QFF, <<>>)),
                                   Contains(S_MFF, GetOr(row.MFF, <<>>)), FALSE))

\* the pass that leaves is_fruit_fly_host at the default of the dataclass
FruitFlyHostRowDefaultFlag(c, row) ==
    IF ~Truthy(row.Botanical_Name) \/ ~Truthy(row.Common_Name) THEN c
    ELSE LET name      == Strip(Val(row.Common_Name))
             botanical == Strip(Val(row.Botanical_Name))
         IN  DictSet(c, Lower(name),
                     CommodityInfo(name, "fruit", Some(botanical), None, None, FALSE,
                                   Contains(S_QFF, GetOr(row.QFF, <<>>)),
                                   Contains(S_MFF, GetOr(row.MFF, <<>>)), FALSE))

\* one pass of the loop of _process_fruit_fly_hosts
FruitFlyHostRow(c, row) ==
    IF ~Truthy(row.Botanical_Name) \/ ~Truthy(row.Common_Name) THEN c
    ELSE LET name      == Strip(Val(row.Common_Name))
             botanical == Strip(Val(row.Botanical_Name))
             is_qff    == Contains(S_QFF, GetOr(row.QFF, <<>>))
             is_mff    == Contains(S_MFF, GetOr(row.MFF, <<>>))
             restricted ==
                 Contains(<<"r","e","s","t","r","i","c","t","e","d"," ","e","n","t","r","y">>,
                          Lower(botanical))
             commodity_type ==
                 IF Contains(S_seed, Lower(name)) \/ Contains(S_seed, Lower(botanical))
                 THEN "seed" ELSE "fruit"
         IN  DictSet(c, Lower(name),
                     CommodityInfo(name, commodity_type, Some(botanical), None, None,
                                   TRUE, is_qff, is_mff, restricted))

RECURSIVE _process_fruit_fly_hosts(_, _)
_process_fruit_fly_hosts(c, rows) ==
    IF rows = <<>> THEN c
    ELSE _process_fruit_fly_hosts(FruitFlyHostRow(c, Head(rows)), Tail(rows))

\* the pass that makes an entry for a host the table does not have yet
PhylloxeraHostRowCreating(c, row) ==
    IF ~Truthy(row.Host) THEN c
    ELSE LET name == Strip(Val(row.Host))
             zones == Some(PhylloxeraZoneInfo(row.PEZ_Requirements,
                                              row.PRZ_Requirements,
                                              row.PIZ_Requirements))
         IN  IF DictHas(c, Lower(name))
             THEN [c EXCEPT ![DictIndex(c, Lower(name))].info.phylloxera_info = zones]
             ELSE DictSet(c, Lower(name),
                          [CommodityInfo(name, "plant", None, None, None,
                                         FALSE, FALSE, FALSE, FALSE)
                               EXCEPT !.phylloxera_info = zones])

\* one pass of the loop of _process_phylloxera_hosts
PhylloxeraHostRow(c, row) ==
    IF ~Truthy(row.Host) THEN c
    ELSE LET name == Strip(Val(row.Host))
         IN  IF DictHas(c, Lower(name))
             THEN [c EXCEPT ![DictIndex(c, Lower(name))].info.phylloxera_info =
                       Some(PhylloxeraZoneInfo(row.PEZ_Requirements,
                                               row.PRZ_Requirements,
                                               row.PIZ_Requirements))]
             ELSE c

RECURSIVE _process_phylloxera_hosts(_, _)
_process_phylloxera_hosts(c, rows) ==
    IF rows = <<>> THEN c
    ELSE _process_phylloxera_hosts(PhylloxeraHostRow(c, Head(rows)), Tail(rows))

\* the irs list both index processors build from the IR column
RowIRs(row) ==
    IF Truthy(row.IR) THEN StripAll(Split(Val(row.IR), ",")) ELSE <<>>

\* the pests set both index processors build from the Pests column
RowPests(row) ==
    IF Truthy(row.Pests) THEN ToSet(StripAll(Split(Val(row.Pests), ","))) ELSE {}

\* the loop body that files a fresh entry whether the commodity exists or not
ReplaceOrCreate(c, name, commodity_type, irs, pests) ==
    DictSet(c, Lower(name),
            CommodityInfo(name, commodity_type, None, Some(irs), Some(pests),
                          FALSE, FALSE, FALSE, FALSE))

\* the if/else that ends the loop body of both index processors
UpdateOrCreate(c, name, commodity_type, irs, pests) ==
    IF DictHas(c, Lower(name))
    THEN [c EXCEPT ![DictIndex(c, Lower(name))].info =
              [@ EXCEPT !.ir_numbers = Some(irs),
                        !.pests = Some(pests),
                        !.commodity_type = commodity_type]]
    ELSE DictSet(c, Lower(name),
                 CommodityInfo(name, commodity_type, None, Some(irs), Some(pests),
                               FALSE, FALSE, FALSE, FALSE))

\* one pass of the loop of _process_seeds_and_grains
SeedsAndGrainsRow(c, row) ==
    IF ~Truthy(row.Commodity) THEN c
    ELSE LET name == Strip(Val(row.Commodity))
             commodity_type ==
                 IF Contains(S_seed, Lower(name)) THEN "seed" ELSE "grain"
         IN  UpdateOrCreate(c, name, commodity_type, RowIRs(row), RowPests(row))

RECURSIVE _process_seeds_and_grains(_, _)
_process_seeds_and_grains(c, rows) ==
    IF rows = <<>> THEN c
    ELSE _process_seeds_and_grains(SeedsAndGrainsRow(c, Head(rows)), Tail(rows))

\* one pass of the loop of _process_other_restricted_matter
OtherRestrictedMatterRow(c, row) ==
    IF ~Truthy(row.Commodity) THEN c
    ELSE LET name == Strip(Val(row.Commodity))
             commodity_type ==
                 IF Contains(S_seed, Lower(name)) THEN "seed"
                 ELSE IF Contains(S_plant, Lower(name)) THEN "plant"
                 ELSE "equipment"
         IN  UpdateOrCreate(c, name, commodity_type, RowIRs(row), RowPests(row))

RECURSIVE _process_other_restricted_matter(_, _)
_process_other_restricted_matter(c, rows) ==
    IF rows = <<>> THEN c
    ELSE _process_other_restricted_matter(OtherRestrictedMatterRow(c, Head(rows)),
                                          Tail(rows))

\* one pass of the loop of _process_cross_index, on the pair of tables
\* [ir |-> self.ir_info, ica |-> self.ica_info]
CrossIndexRow(t, row) ==
    IF ~Truthy(row.IR_Number) THEN t
    ELSE LET ir_number == Strip(Val(row.IR_Number))
             ir_title  == Strip(GetOr(row.IR_Title, <<>>))
             ica_text  == Strip(GetOr(row.ICA_Equivalent, <<>>))
             ica_parts == Split(ica_text, ":")
             ir        == IRInfo(ir_number, ir_title, <<>>,
                                 Contains(<<"R","E","V","O","K","E","D">>, ir_title))
         IN  IF ica_text /= <<>> /\ Contains(<<"I","C","A","-">>, ica_text)
                /\ Len(ica_parts) >= 2
             THEN LET ica == ICAInfo(Strip(ica_parts[1]), Strip(ica_parts[2]),
                                     <<"A","c","c","e","p","t","e","d">>, <<ir_number>>)
                  IN  [ir  |-> DictSet(t.ir, ir_number,
                                       [ir EXCEPT !.applicable_icas = <<ica>>]),
                       ica |-> DictSet(t.ica, ica.number, ica)]
             ELSE [ir |-> DictSet(t.ir, ir_number, ir), ica |-> t.ica]

RECURSIVE _process_cross_index(_, _)
_process_cross_index(t, rows) ==
    IF rows = <<>> THEN t
    ELSE _process_cross_index(CrossIndexRow(t, Head(rows)), Tail(rows))

TN_FRUIT_FLY == <<"S","C","H","E","D","U","L","E","-","1","A","-","F","R","U","I","T","-","F","L","Y","-","H","O","S","T","-","F","R","U","I","T">>
TN_PHYLLOXERA == <<"S","C","H","E","D","U","L","E","-","1","-","H","o","s","t","s","-","o","f","-","G","r","a","p","e","-","P","h","y","l","l","o","x","e","r","a">>
TN_SEEDS == <<"T","a","b","l","e","3","-","I","n","d","e","x","-","o","f","-","I","R","s","-","f","o","r","-","S","e","e","d","s","-","a","n","d","-","G","r","a","i","n","s">>
TN_OTHER == <<"T","a","b","l","e","4","-","I","n","d","e","x","-","o","f","-","I","R","s","-","f","o","r","-","O","t","h","e","r","-","R","e","s","t","r","i","c","t","e","d","-","m","a","t","t","e","r">>
TN_CROSS == <<"C","r","o","s","s","-","I","n","d","e","x","-","o","f","-","T","a","s","m","a","n","i","a","n","-","I","R","s","-","b","y","-","I","C","A","-","E","q","u","i","v","a","l","e","n","t">>

\* _load_cleaned_data on the tables db = [c, ir, ica]: route the rows by table name
_load_cleaned_data(db, data) ==
    IF Contains(TN_FRUIT_FLY, data.name)
    THEN [db EXCEPT !.c = _process_fruit_fly_hosts(db.c, data.rows)]
    ELSE IF Contains(TN_PHYLLOXERA, data.name)
    THEN [db EXCEPT !.c = _process_phylloxera_hosts(db.c, data.rows)]
    ELSE IF Contains(TN_SEEDS, data.name)
    THEN [db EXCEPT !.c = _process_seeds_and_grains(db.c, data.rows)]
    ELSE IF Contains(TN_OTHER, data.name)
    THEN [db EXCEPT !.c = _process_other_restricted_matter(db.c, data.rows)]
    ELSE IF Contains(TN_CROSS, data.name)
    THEN LET t == _process_cross_index([ir |-> db.ir, ica |-> db.ica], data.rows)
         IN  [db EXCEPT !.ir = t.ir, !.ica = t.ica]
    ELSE db

----------------------------------------------------------------------------
(* tas_data.py: CommodityDatabase, the public lookup methods.  Each returns *)
(* [db, ret]: the tables after the call and the value returned.            *)

Tables == [c |-> commodities, ir |-> ir_info, ica |-> ica_info, pests |-> pest_info]

\* [pest for pest in self.pest_info.values() if keep(pest) and state in pest.present_in]
PestsWhere(pests, keep(_), state) ==
    SelectSeq(DictValues(pests), LAMBDA pest : keep(pest) /\ InList(state, pest.present_in))

get_pest_info(db, pest_code) == [db |-> db, ret |-> DictGet(db.pests, pest_code)]

get_pests_by_state(db, state) ==
    [db |-> db, ret |-> PestsWhere(db.pests, LAMBDA pest : TRUE, state)]

\* the method without the test of the state
AllFruitFlies(db, state) ==
    [db |-> db, ret |-> SelectSeq(DictValues(db.pests), LAMBDA pest : pest.is_fruit_fly)]

get_fruit_flies_by_state(db, state) ==
    [db |-> db, ret |-> PestsWhere(db.pests, LAMBDA pest : pest.is_fruit_fly, state)]

get_phylloxera_by_state(db, state) ==
    [db |-> db, ret |-> PestsWhere(db.pests, LAMBDA pest : pest.is_phylloxera, state)]

get_weeds_by_state(db, state) ==
    [db |-> db, ret |-> PestsWhere(db.pests, LAMBDA pest : pest.is_weed, state)]

get_gm_by_state(db, state) ==
    [db |-> db, ret |-> PestsWhere(db.pests, LAMBDA pest : pest.is_gm, state)]

\* lookup that leaves a default entry behind for a name it does not find
LookupInserting(db, query) ==
    IF DictHas(db.c, Strip(Lower(query)))
    THEN [db |-> db, ret |-> DictGet(db.c, Strip(Lower(query)))]
    ELSE [db |-> [db EXCEPT !.c =
                      DictSet(db.c, Strip(Lower(query)),
                              CommodityInfo(Strip(Lower(query)), "other", None, None,
                                            None, FALSE, FALSE, FALSE, FALSE))],
          ret |-> None]

\* lookup without strip()
LookupNoStrip(db, query) == [db |-> db, ret |-> DictGet(db.c, Lower(query))]

lookup(db, query) == [db |-> db, ret |-> DictGet(db.c, Strip(Lower(query)))]

\* the search that looks for the query in the name of the entry, not its key
SearchItemsByName(c, query) ==
    DictValues(SelectSeq(c, LAMBDA item : Contains(query, item.info.name)))

\* [info for name, info in self.commodities.items() if query in name]
SearchItems(c, query) ==
    DictValues(SelectSeq(c, LAMBDA item : Contains(query, item.key)))

search(db, query) == [db |-> db, ret |-> SearchItems(db.c, Strip(Lower(query)))]

get_ir_info(db, ir_number) == [db |-> db, ret |-> DictGet(db.ir, ir_number)]

get_ica_info(db, ica_number) == [db |-> db, ret |-> DictGet(db.ica, ica_number)]

----------------------------------------------------------------------------
(* The inputs of the model. *)

\* every sequence over S of length at most n
SeqsUpTo(S, n) == UNION {[1..k -> S] : k \in 0..n}

\* rows of the fruit fly host table
FruitFlyRows ==
    { [EmptyRow EXCEPT !.Common_Name = Some(<<"A","p","p","l","e">>), !.Botanical_Name = Some(<<"M","a","l","u","s">>),
                       !.QFF = Some(S_QFF), !.MFF = Some(S_MFF)],
      [EmptyRow EXCEPT !.Common_Name = Some(<<" ","A","P","P","L","E">>),
                       !.Botanical_Name = Some(<<"M","."," ","(","R","e","s","t","r","i","c","t","e","d"," ","E","n","t","r","y",")"," ">>),
                       !.QFF = Some(S_QFF)],
      [EmptyRow EXCEPT !.Common_Name = Some(<<"V","i","n","e"," ","s","e","e","d">>), !.Botanical_Name = Some(<<"V","i","t","i","s">>),
                       !.QFF = Some(<<>>)],
      [EmptyRow EXCEPT !.Common_Name = Some(<<"A","p","p","l","e">>)] }

\* rows of the phylloxera host table
PhylloxeraRows ==
    { [EmptyRow EXCEPT !.Host = Some(<<" ","v","i","n","e"," ","S","e","e","d"," ">>), !.PEZ_Requirements = Some(<<"a">>),
                       !.PIZ_Requirements = Some(<<"b">>)],
      [EmptyRow EXCEPT !.Host = Some(<<"H","o","p">>), !.PRZ_Requirements = Some(<<"c">>)],
      [EmptyRow EXCEPT !.PEZ_Requirements = Some(<<"a">>)] }

\* rows of the seeds and grains index
SeedsAndGrainsRows ==
    { [EmptyRow EXCEPT !.Commodity = Some(<<"V","i","n","e"," ","S","e","e","d">>), !.IR = Some(<<"I","R","1",","," ","I","R","2">>),
                       !.Pests = Some(<<"P","W">>)],
      [EmptyRow EXCEPT !.Commodity = Some(<<"a","p","p","l","e"," ">>), !.Pests = Some(<<"F","B"," ",",","D","W">>)],
      [EmptyRow EXCEPT !.IR = Some(<<"I","R","1">>)] }

\* rows of the other restricted matter index
OtherRestrictedMatterRows ==
    { [EmptyRow EXCEPT !.Commodity = Some(<<"A","P","P","L","E">>), !.IR = Some(<<"I","R","2">>),
                       !.Pests = Some(<<"G","P">>)],
      [EmptyRow EXCEPT !.Commodity = Some(<<"P","o","t"," ","P","l","a","n","t">>), !.IR = Some(<<"I","R","1",",","I","R","2">>)],
      [EmptyRow EXCEPT !.Commodity = Some(<<>>), !.IR = Some(<<"I","R","2">>)] }

\* rows of the cross index
CrossIndexRows ==
    { [EmptyRow EXCEPT !.IR_Number = Some(<<"I","R","1">>), !.IR_Title = Some(<<"H","o","s","t","s">>),
                       !.ICA_Equivalent = Some(<<"I","C","A","-","1",":"," ","D","i","p">>)],
      [EmptyRow EXCEPT !.IR_Number = Some(<<"I","R","2"," ">>), !.IR_Title = Some(<<"R","E","V","O","K","E","D">>),
                       !.ICA_Equivalent = Some(<<"I","C","A","-","1",":"," ","D","i","p">>)],
      [EmptyRow EXCEPT !.IR_Number = Some(<<"I","R","1">>), !.ICA_Equivalent = Some(<<"I","C","A","-","2">>)],
      [EmptyRow EXCEPT !.IR_Title = Some(<<"H","o","s","t","s">>)] }

\* the cleaned files a directory may hold.  readable: open() and json.load()
\* succeed and the data has "name" and "rows"; raises: the row after `rows`
\* makes its processor raise (a fruit fly row with "QFF": null fails the test
\* "QFF" in row.get("QFF", "") with TypeError), so `rows` are the rows
\* processed before the exception
CleanedFiles ==
    {[readable |-> FALSE, name |-> <<>>, rows |-> <<>>, raises |-> TRUE]}
    \cup [readable : {TRUE}, name : {TN_FRUIT_FLY}, rows : SeqsUpTo(FruitFlyRows, MaxRows),
          raises : {FALSE}]
    \cup [readable : {TRUE}, name : {TN_FRUIT_FLY}, rows : SeqsUpTo(FruitFlyRows, 1),
          raises : {TRUE}]
    \cup [readable : {TRUE}, name : {TN_PHYLLOXERA}, rows : SeqsUpTo(PhylloxeraRows, MaxRows),
          raises : {FALSE}]
    \cup [readable : {TRUE}, name : {TN_SEEDS}, rows : SeqsUpTo(SeedsAndGrainsRows, MaxRows),
          raises : {FALSE}]
    \cup [readable : {TRUE}, name : {TN_OTHER},
          rows : SeqsUpTo(OtherRestrictedMatterRows, MaxRows), raises : {FALSE}]
    \cup [readable : {TRUE}, name : {TN_CROSS}, rows : SeqsUpTo(CrossIndexRows, MaxRows),
          raises : {FALSE}]
    \cup [readable : {TRUE}, name : {<<"T","a","b","l","e","2","-","I","n","d","e","x">>},
          rows : SeqsUpTo(FruitFlyRows, 1), raises : {FALSE}]

\* arguments of lookup and search
CommodityQueries == {<<"a","p","p","l","e">>, <<" ","A","P","P","L","E"," ">>, <<"V","i","n","e">>, <<"h","o","p">>, <<>>, <<" ">>}

\* arguments of the by-state methods
StateQueries == {<<"N","S","W">>, <<"T","A","S">>}

\* arguments of get_pest_info, get_ir_info and get_ica_info
CodeQueries == {S_QFF, <<"I","R","1">>, <<"I","C","A","-","1">>}

----------------------------------------------------------------------------
(* The database: construction, then lookups. *)

NoCall == [method |-> "none", arg |-> <<>>]

ToolIdle ==
    /\ fruit_fly_db = <<>>
    /\ a_query = <<>>
    /\ a_state = None
    /\ a_ret = <<>>
    /\ a_calls = <<>>
    /\ a_risk = None

NormIdle ==
    /\ n_name = <<>>
    /\ n_ret = None

\* CommodityDatabase.__init__ has made the four empty tables
Init ==
    /\ pc = "new"
    /\ commodities = <<>>
    /\ ir_info = <<>>
    /\ ica_info = <<>>
    /\ pest_info = <<>>
    /\ nfiles = 0
    /\ op = NoCall
    /\ result = None
    /\ ToolIdle
    /\ NormIdle

\* self._load_pest_info()
LoadPestInfo ==
    /\ pc = "new"
    /\ pest_info' = _load_pest_info(pest_info)
    /\ pc' = "pests"
    /\ UNCHANGED <<commodities, ir_info, ica_info, nfiles, op, result>>
    /\ UNCHANGED <<toolVars, normVars>>

\* the exception _load_data raises, and the line it prints for a file
ERR_NO_DIRECTORY == "RuntimeError: Cleaned data directory not found. Run data_cleaner.py first."
ERR_LOADING == "Error loading {file_path.name}: {e}"

\* __init__ with its two calls swapped: _load_data runs before _load_pest_info
LoadDataNoDirectoryFirst ==
    /\ pc = "new"
    /\ pc' = "failed"
    /\ op' = [method |-> "_load_data", arg |-> <<>>]
    /\ result' = Some(ERR_NO_DIRECTORY)
    /\ UNCHANGED <<commodities, ir_info, ica_info, pest_info, nfiles>>
    /\ UNCHANGED <<toolVars, normVars>>

\* _load_data: mnt/data/cleaned does not exist, RuntimeError leaves __init__
LoadDataNoDirectory ==
    /\ pc = "pests"
    /\ pc' = "failed"
    /\ op' = [method |-> "_load_data", arg |-> <<>>]
    /\ result' = Some(ERR_NO_DIRECTORY)
    /\ UNCHANGED <<commodities, ir_info, ica_info, pest_info, nfiles>>
    /\ UNCHANGED <<toolVars, normVars>>

\* _load_data: the directory exists, the loop over its files starts
LoadDataBegin ==
    /\ pc = "pests"
    /\ pc' = "loading"
    /\ UNCHANGED <<commodities, ir_info, ica_info, pest_info, nfiles, op, result>>
    /\ UNCHANGED <<toolVars, normVars>>

\* the loop of _load_data without try/except: the exception of a file
\* leaves _load_data and __init__
LoadCleanedDataUncaught(data) ==
    /\ pc = "loading"
    /\ nfiles < MaxFiles
    /\ \E db \in {IF data.readable THEN _load_cleaned_data(Tables, data) ELSE Tables} :
           /\ commodities' = db.c
           /\ ir_info' = db.ir
           /\ ica_info' = db.ica
           /\ pest_info' = db.pests
    /\ nfiles' = nfiles + 1
    /\ op' = [method |-> "_load_cleaned_data", arg |-> <<>>]
    /\ result' = IF data.raises THEN Some(ERR_LOADING) ELSE None
    /\ pc' = IF data.raises THEN "failed" ELSE pc
    /\ UNCHANGED <<toolVars, normVars>>

\* _load_data: one pass of the loop, try _load_cleaned_data except print.
\* The tables keep what the file's rows did before an exception; result is
\* the line printed, None when the file was loaded
LoadCleanedData(data) ==
    /\ pc = "loading"
    /\ nfiles < MaxFiles
    /\ \E db \in {IF data.readable THEN _load_cleaned_data(Tables, data) ELSE Tables} :
           /\ commodities' = db.c
           /\ ir_info' = db.ir
           /\ ica_info' = db.ica
           /\ pest_info' = db.pests
    /\ nfiles' = nfiles + 1
    /\ op' = [method |-> "_load_cleaned_data", arg |-> <<>>]
    /\ result' = IF data.raises THEN Some(ERR_LOADING) ELSE None
    /\ UNCHANGED pc
    /\ UNCHANGED <<toolVars, normVars>>

\* _load_data: the loop is over, __init__ returns
LoadDataEnd ==
    /\ pc = "loading"
    /\ pc' = "ready"
    /\ UNCHANGED <<commodities, ir_info, ica_info, pest_info, nfiles, op, result>>
    /\ UNCHANGED <<toolVars, normVars>>

\* a call of a public lookup method on the constructed database
Call(method, arg, r) ==
    /\ pc = "ready"
    /\ op' = [method |-> method, arg |-> arg]
    /\ \E done \in {r} :
           /\ result' = done.ret
           /\ commodities' = done.db.c
           /\ ir_info' = done.db.ir
           /\ ica_info' = done.db.ica
           /\ pest_info' = done.db.pests
    /\ UNCHANGED <<pc, nfiles>>
    /\ UNCHANGED <<toolVars, normVars>>

CallLookup == \E q \in CommodityQueries : Call("lookup", q, lookup(Tables, q))
CallSearch == \E q \in CommodityQueries : Call("search", q, search(Tables, q))
CallGetPestInfo == \E q \in CodeQueries : Call("get_pest_info", q, get_pest_info(Tables, q))
CallGetPestsByState ==
    \E q \in StateQueries : Call("get_pests_by_state", q, get_pests_by_state(Tables, q))
CallGetFruitFliesByState ==
    \E q \in StateQueries :
        Call("get_fruit_flies_by_state", q, get_fruit_flies_by_state(Tables, q))
CallGetPhylloxeraByState ==
    \E q \in StateQueries :
        Call("get_phylloxera_by_state", q, get_phylloxera_by_state(Tables, q))
CallGetWeedsByState ==
    \E q \in StateQueries : Call("get_weeds_by_state", q, get_weeds_by_state(Tables, q))
CallGetGmByState ==
    \E q \in StateQueries : Call("get_gm_by_state", q, get_gm_by_state(Tables, q))
CallGetIrInfo == \E q \in CodeQueries : Call("get_ir_info", q, get_ir_info(Tables, q))
CallGetIcaInfo == \E q \in CodeQueries : Call("get_ica_info", q, get_ica_info(Tables, q))

Next ==
    \/ LoadPestInfo
    \/ LoadDataNoDirectory
    \/ LoadDataBegin
    \/ \E data \in CleanedFiles : LoadCleanedData(data)
    \/ LoadDataEnd
    \/ CallLookup
    \/ CallSearch
    \/ CallGetPestInfo
    \/ CallGetPestsByState
    \/ CallGetFruitFliesByState
    \/ CallGetPhylloxeraByState
    \/ CallGetWeedsByState
    \/ CallGetGmByState
    \/ CallGetIrInfo
    \/ CallGetIcaInfo

Spec == Init /\ [][Next]_vars

----------------------------------------------------------------------------
(* tas_data.fruit_fly_db: the fruit fly host database that tas_tools.py and *)
(* test_fruit_fly.py import.  Its table is a dict from lower-cased name to *)
(* a commodity with name, is_fruit_fly_host, qff_host and mff_host.        *)

\* fruit_fly_db.get_commodity_info(name): the exact match, or None
get_commodity_info(db, name) == DictGet(db, Strip(Lower(name)))

\* fruit_fly_db.search_commodities(name): the commodities whose name contains it
search_commodities(db, name) == SearchItems(db, Strip(Lower(name)))

\* fruit_fly_db.is_pest_present_in_state(code, state), on the pest table
is_pest_present_in_state(code, state) ==
    \E i \in 1..Len(TABLE_1) :
        TABLE_1[i].code = code /\ InList(state, TABLE_1[i].present_in)

\* fruit_fly_db.assess_fruit_fly_risk(name, state): the host check first, then
\* the presence of the fly in the state
assess_fruit_fly_risk(db, name, state) ==
    LET found == get_commodity_info(db, name)
    IN  IF found = None
        THEN [error |-> Some([text |-> "Commodity not found", arg |-> name]),
              qff_risk |-> FALSE, mff_risk |-> FALSE, risk_details |-> <<>>]
        ELSE LET commodity == Val(found)
                 qff == commodity.qff_host /\ is_pest_present_in_state(S_QFF, state)
                 mff == commodity.mff_host /\ is_pest_present_in_state(S_MFF, state)
             IN  [error |-> None, qff_risk |-> qff, mff_risk |-> mff,
                  risk_details |->
                      (IF qff THEN <<[text |-> "QFF host from a state with QFF",
                                      arg |-> state]>> ELSE <<>>)
                      \o (IF mff THEN <<[text |-> "MFF host from a state with MFF",
                                         arg |-> state]>> ELSE <<>>)]

----------------------------------------------------------------------------
(* tas_tools.py: fruit_fly_assessment.  The returned text is the sequence  *)
(* of its lines; a line is [text, arg], the literal of the source (written *)
(* in ASCII) and the value formatted into it.                              *)

Line(text) == [text |-> text, arg |-> <<>>]
LineOf(text, arg) == [text |-> text, arg |-> arg]

ERR_FORMAT == Line("ERROR: Invalid input format. Expected 'commodity, state' or separate parameters.")
ERR_ORIGIN == Line("ERROR: Origin state is required for fruit fly assessment. Please specify the state of origin.")
ErrNotFound(commodity_name) == LineOf("ERROR: Commodity '{commodity_name}' not found in fruit fly host database.", commodity_name)
FOOTER_NOI == Line("- Lodge a *Notice of Intention (NoI) to Import* with Biosecurity Tasmania at least **24 h before the consignment arrives**")

\* response_parts up to the host status
HeaderParts(commodity, origin_state) ==
    << LineOf("**Commodity**: {commodity.name}", commodity.name),
       LineOf("**Origin State**: {origin_state}", origin_state),
       Line("**Destination**: Tasmania"),
       Line("") >>

\* response_parts of the host status
HostStatusParts(commodity) ==
    IF commodity.is_fruit_fly_host
    THEN <<Line("**Fruit Fly Host Status**:")>>
         \o (IF commodity.qff_host
             THEN <<Line("- Queensland Fruit Fly (QFF) host: YES")>> ELSE <<>>)
         \o (IF commodity.mff_host
             THEN <<Line("- Mediterranean Fruit Fly (MFF) host: YES")>> ELSE <<>>)
         \o <<Line("")>>
    ELSE <<Line("**Fruit Fly Host Status**: NOT a fruit fly host"), Line("")>>

DetailParts(details) ==
    IF details = <<>> THEN <<>>
    ELSE [i \in 1..Len(details) |-> LineOf(details[i].text, details[i].arg)]

IcaParts(text) ==
    << Line(text),
       Line("  - Must be treated with approved treatment"),
       Line("  - Must have valid phytosanitary certificate"),
       Line("  - Must be free from fruit fly") >>

\* the risk section that tests risk_assessment["qff_risk"] alone
RiskPartsQffOnly(commodity, risk) ==
    IF risk.qff_risk
    THEN <<Line("**FRUIT FLY RISK DETECTED**:")>>
         \o DetailParts(risk.risk_details)
         \o <<Line(""), Line("**Required ICA Conditions**:")>>
         \o (IF risk.qff_risk
             THEN IcaParts("- **ICA-1**: Queensland Fruit Fly Hosts") ELSE <<>>)
         \o (IF risk.mff_risk
             THEN IcaParts("- **ICA-2**: Mediterranean Fruit Fly Hosts") ELSE <<>>)
         \o << Line(""),
               Line("**Treatment Requirements**:"),
               Line("- Cold treatment: 1C for 14 days"),
               Line("- Heat treatment: 47C for 20 minutes"),
               Line("- Fumigation: Methyl bromide or phosphine"),
               Line(""),
               Line("**Documentation Required**:"),
               Line("- Phytosanitary certificate with treatment details"),
               Line("- Treatment certificate"),
               Line("- Notice of Intention (NOI) 24h before arrival"),
               Line("") >>
    ELSE << Line("**NO FRUIT FLY RISK**:"),
            Line("- No fruit fly hosts present in origin state"),
            Line("- No specific ICA conditions required for fruit fly"),
            Line("") >>
         \o (IF commodity.is_fruit_fly_host
             THEN <<Line("**Note**: While this commodity is a fruit fly host, the relevant fruit fly is not present in the origin state.")>>
             ELSE <<>>)
         \o <<Line("")>>

\* response_parts of the risk assessment
RiskParts(commodity, risk) ==
    IF risk.qff_risk \/ risk.mff_risk
    THEN <<Line("**FRUIT FLY RISK DETECTED**:")>>
         \o DetailParts(risk.risk_details)
         \o <<Line(""), Line("**Required ICA Conditions**:")>>
         \o (IF risk.qff_risk
             THEN IcaParts("- **ICA-1**: Queensland Fruit Fly Hosts") ELSE <<>>)
         \o (IF risk.mff_risk
             THEN IcaParts("- **ICA-2**: Mediterranean Fruit Fly Hosts") ELSE <<>>)
         \o << Line(""),
               Line("**Treatment Requirements**:"),
               Line("- Cold treatment: 1C for 14 days"),
               Line("- Heat treatment: 47C for 20 minutes"),
               Line("- Fumigation: Methyl bromide or phosphine"),
               Line(""),
               Line("**Documentation Required**:"),
               Line("- Phytosanitary certificate with treatment details"),
               Line("- Treatment certificate"),
               Line("- Notice of Intention (NOI) 24h before arrival"),
               Line("") >>
    ELSE << Line("**NO FRUIT FLY RISK**:"),
            Line("- No fruit fly hosts present in origin state"),
            Line("- No specific ICA conditions required for fruit fly"),
            Line("") >>
         \o (IF commodity.is_fruit_fly_host
             THEN <<Line("**Note**: While this commodity is a fruit fly host, the relevant fruit fly is not present in the origin state.")>>
             ELSE <<>>)
         \o <<Line("")>>

\* response_parts of the generic footer
FooterParts ==
    << Line("**Pre-entry Requirements**:"),
       FOOTER_NOI,
       Line("- Attach required phytosanitary certificates"),
       Line("- Ensure all treatment requirements are met") >>

\* the assessment asked for the state in lower case
AssessWithLowerState(db, commodity, origin_state, calls) ==
    LET risk == assess_fruit_fly_risk(db, commodity.name, Lower(origin_state))
    IN  [ret |-> HeaderParts(commodity, origin_state)
                 \o HostStatusParts(commodity)
                 \o RiskParts(commodity, risk)
                 \o FooterParts,
         calls |-> Append(calls, "assess_fruit_fly_risk"), risk |-> Some(risk)]

\* the part of fruit_fly_assessment after the commodity is identified
AssessAndRespond(db, commodity, origin_state, calls) ==
    LET risk == assess_fruit_fly_risk(db, commodity.name, origin_state)
    IN  IF risk.error /= None
        THEN [ret |-> <<Val(risk.error)>>,
              calls |-> Append(calls, "assess_fruit_fly_risk"), risk |-> None]
        ELSE [ret |-> HeaderParts(commodity, origin_state)
                      \o HostStatusParts(commodity)
                      \o RiskParts(commodity, risk)
                      \o FooterParts,
              calls |-> Append(calls, "assess_fruit_fly_risk"), risk |-> Some(risk)]

\* the identification that tests the origin state against None alone
IdentifyOriginNoneOnly(db, commodity_text, origin_state) ==
    IF origin_state = None
    THEN [ret |-> <<ERR_ORIGIN>>, calls |-> <<>>, risk |-> None]
    ELSE LET commodity_name == _normalize_commodity_name(commodity_text)
             exact   == get_commodity_info(db, commodity_name)
             matches == search_commodities(db, commodity_name)
         IN  IF exact /= None
             THEN AssessAndRespond(db, Val(exact), Val(origin_state),
                                   <<"get_commodity_info">>)
             ELSE IF matches /= <<>>
             THEN AssessAndRespond(db, matches[1], Val(origin_state),
                                   <<"get_commodity_info", "search_commodities">>)
             ELSE [ret |-> <<ErrNotFound(commodity_name)>>,
                   calls |-> <<"get_commodity_info", "search_commodities">>,
                   risk |-> None]

\* the identification that reports the name as typed when nothing matches
IdentifyReportsTypedName(db, commodity_text, origin_state) ==
    IF ~Truthy(origin_state)
    THEN [ret |-> <<ERR_ORIGIN>>, calls |-> <<>>, risk |-> None]
    ELSE LET commodity_name == _normalize_commodity_name(commodity_text)
             exact   == get_commodity_info(db, commodity_name)
             matches == search_commodities(db, commodity_name)
         IN  IF exact /= None
             THEN AssessAndRespond(db, Val(exact), Val(origin_state),
                                   <<"get_commodity_info">>)
             ELSE IF matches /= <<>>
             THEN AssessAndRespond(db, matches[1], Val(origin_state),
                                   <<"get_commodity_info", "search_commodities">>)
             ELSE [ret |-> <<ErrNotFound(commodity_text)>>,
                   calls |-> <<"get_commodity_info", "search_commodities">>,
                   risk |-> None]

\* the part of fruit_fly_assessment after the arguments are taken apart
IdentifyAndAssess(db, commodity_text, origin_state) ==
    IF ~Truthy(origin_state)
    THEN [ret |-> <<ERR_ORIGIN>>, calls |-> <<>>, risk |-> None]
    ELSE LET commodity_name == _normalize_commodity_name(commodity_text)
             exact   == get_commodity_info(db, commodity_name)
             matches == search_commodities(db, commodity_name)
         IN  IF exact /= None
             THEN AssessAndRespond(db, Val(exact), Val(origin_state),
                                   <<"get_commodity_info">>)
             ELSE IF matches /= <<>>
             THEN AssessAndRespond(db, matches[1], Val(origin_state),
                                   <<"get_commodity_info", "search_commodities">>)
             ELSE [ret |-> <<ErrNotFound(commodity_name)>>,
                   calls |-> <<"get_commodity_info", "search_commodities">>,
                   risk |-> None]

\* the tool that does not strip the two parts of a one-string query
AssessmentKeepsPadding(db, query, origin_state) ==
    IF Contains(<<",">>, query) /\ ~Truthy(origin_state)
    THEN LET parts == Split1(query, ",")
         IN  IdentifyAndAssess(db, parts[1], Some(parts[2]))
    ELSE IdentifyAndAssess(db, query, origin_state)

\* fruit_fly_assessment(query, origin_state): [ret, calls, risk], the text
\* returned, the fruit_fly_db methods used and the risk_assessment built on
fruit_fly_assessment(db, query, origin_state) ==
    IF Contains(<<",">>, query) /\ ~Truthy(origin_state)
    THEN LET parts == Split1(query, ",")
         IN  IF Len(parts) = 2
             THEN IdentifyAndAssess(db, Strip(parts[1]), Some(Strip(parts[2])))
             ELSE [ret |-> <<ERR_FORMAT>>, calls |-> <<>>, risk |-> None]
    ELSE IdentifyAndAssess(db, query, origin_state)

\* fruit_fly_tool: the agent calls func with the one string of the tool input
fruit_fly_tool(db, tool_input) == fruit_fly_assessment(db, tool_input, None)

----------------------------------------------------------------------------
(* The inputs of the tool. *)

\* a commodity of the fruit fly host table
Host(name, is_host, qff, mff) ==
    CommodityInfo(name, "fruit", None, None, None, is_host, qff, mff, FALSE)

HostEntries ==
    { Host(<<"A","p","p","l","e">>, TRUE, TRUE, TRUE),
      Host(<<"C","r","a","b"," ","a","p","p","l","e">>, TRUE, TRUE, FALSE),
      Host(<<"G","r","a","p","e">>, TRUE, FALSE, TRUE),
      Host(<<"H","o","p">>, FALSE, FALSE, FALSE) }

\* the table with the given commodities, keyed by lower-cased name
RECURSIVE HostTable(_)
HostTable(entries) ==
    IF entries = <<>> THEN <<>>
    ELSE DictSet(HostTable(SubSeq(entries, 1, Len(entries) - 1)),
                 Lower(entries[Len(entries)].name), entries[Len(entries)])

FruitFlyDatabases == {HostTable(entries) : entries \in SeqsUpTo(HostEntries, MaxHosts)}

\* commodity texts without a comma
ToolCommodities == {<<"a","p","p","l","e","s">>, <<" ","A","p","p","l","e">>, <<"a","p","p">>, <<"T","a","b","l","e"," ","G","r","a","p","e","s">>, <<"h","o","p">>, <<"p","e","a","r">>, <<>>}

\* origin states, without surrounding whitespace
ToolStates == {<<"N","S","W">>, <<"W","A">>, <<"T","A","S">>, <<"S","A">>}

\* what may follow the comma of a one-string query
ToolStateTexts == ToolStates \cup {<<>>, <<" ">>, <<" ","W","A"," ">>, <<"N","S","W",",">>}

\* the query argument
ToolQueries ==
    ToolCommodities
    \cup {c \o <<","," ">> \o s : c \in ToolCommodities, s \in ToolStates}
    \cup {c \o <<",">> \o s : c \in {<<"a","p","p","l","e","s">>, <<" ","p","e","a","r">>, <<>>}, s \in ToolStateTexts}

\* the origin_state argument
ToolOrigins == {None, Some(<<>>), Some(<<" ">>)} \cup {Some(s) : s \in ToolStates}

----------------------------------------------------------------------------
(* The tool: calls of fruit_fly_assessment on a fruit fly host table. *)

DatabaseIdle ==
    /\ pc = "new"
    /\ commodities = <<>>
    /\ ir_info = <<>>
    /\ ica_info = <<>>
    /\ pest_info = <<>>
    /\ nfiles = 0
    /\ op = NoCall
    /\ result = None

\* a call of the tool is about to be made: the table and the arguments
InitTool ==
    /\ fruit_fly_db \in FruitFlyDatabases
    /\ a_query \in ToolQueries
    /\ a_state \in ToolOrigins
    /\ a_ret = <<>>
    /\ a_calls = <<>>
    /\ a_risk = None
    /\ DatabaseIdle
    /\ NormIdle

\* the direct call fruit_fly_assessment(query, origin_state) returns
FruitFlyAssessment ==
    /\ a_ret = <<>>
    /\ \E done \in {fruit_fly_assessment(fruit_fly_db, a_query, a_state)} :
           /\ a_ret' = done.ret
           /\ a_calls' = done.calls
           /\ a_risk' = done.risk
    /\ UNCHANGED <<fruit_fly_db, a_query, a_state, dbVars, normVars>>

\* the agent's run of fruit_fly_tool on the one input string returns
FruitFlyTool ==
    /\ a_ret = <<>>
    /\ a_state = None
    /\ \E done \in {fruit_fly_tool(fruit_fly_db, a_query)} :
           /\ a_ret' = done.ret
           /\ a_calls' = done.calls
           /\ a_risk' = done.risk
    /\ UNCHANGED <<fruit_fly_db, a_query, a_state, dbVars, normVars>>

NextTool ==
    \/ FruitFlyAssessment
    \/ FruitFlyTool

SpecTool == InitTool /\ [][NextTool]_vars

----------------------------------------------------------------------------
(* The normaliser: calls of _normalize_commodity_name. *)

\* every run of whitespace of length at most MaxPad
Pads == SeqsUpTo(Whitespace, MaxPad)

Upper(s) == IF s = <<>> THEN <<>> ELSE [i \in 1..Len(s) |-> UpperChar(s[i])]

UpperAt(s, k) == [i \in 1..Len(s) |-> IF i = k THEN UpperChar(s[i]) ELSE s[i]]

\* s in lower case, in upper case, and with one letter in upper case
CaseVariants(s) == {s, Upper(s)} \cup {UpperAt(s, k) : k \in 1..Len(s)}

PluralNames == DOMAIN plural_to_singular

SingularNames == {plural_to_singular[p] : p \in PluralNames}

\* names the plural table does not have
OtherNames == {<<"h","o","p">>, <<"p","e","a"," ","s","e","e","d">>, <<"a","p","p","l","e"," ","s">>, <<>>}

\* a call of the normaliser is about to be made, on a name of the plural
\* table, a singular or another name, in some letter case and padding
InitNormalize ==
    /\ \E s \in PluralNames \cup SingularNames \cup OtherNames :
       \E l \in Pads, r \in Pads, v \in CaseVariants(s) :
           n_name = l \o v \o r
    /\ n_ret = None
    /\ DatabaseIdle
    /\ ToolIdle

\* _normalize_commodity_name(n_name) returns
Normalize ==
    /\ n_ret = None
    /\ n_ret' = Some(_normalize_commodity_name(n_name))
    /\ UNCHANGED <<n_name, dbVars, toolVars>>

NextNormalize == Normalize

SpecNormalize == InitNormalize /\ [][NextNormalize]_vars

----------------------------------------------------------------------------
(* Properties of the fruit fly assessment tool (SpecTool). *)

\* the call has returned
Returned == a_ret /= <<>>

\* the text after the first comma of the query, None when it has no comma
AfterComma ==
    IF Contains(<<",">>, a_query)
    THEN Some(SubSeq(a_query, FirstIndex(a_query, ",") + 1, Len(a_query)))
    ELSE None

\* the text before the first comma of the query
BeforeComma == SubSeq(a_query, 1, FirstIndex(a_query, ",") - 1)

\* s is empty or all whitespace
Blank(s) == \A i \in 1..Len(s) : s[i] \in Whitespace

\* s has no whitespace at either end
Trimmed(s) == s = <<>> \/ (s[1] \notin Whitespace /\ s[Len(s)] \notin Whitespace)

\* the pest table lists the state for the pest
ListedIn(code, state) ==
    \E i \in 1..Len(TABLE_1) :
        TABLE_1[i].code = code
        /\ \E j \in 1..Len(TABLE_1[i].present_in) : TABLE_1[i].present_in[j] = state

\* the response names this commodity of the host table and this origin state
Reports(i, state) ==
    /\ Len(a_ret) >= 2
    /\ a_ret[1] = LineOf("**Commodity**: {commodity.name}", fruit_fly_db[i].info.name)
    /\ a_ret[2] = LineOf("**Origin State**: {origin_state}", state)

\* the origin state of the call: the argument, or the text after the comma
EffectiveOrigin ==
    IF Truthy(a_state) THEN Val(a_state)
    ELSE IF AfterComma /= None THEN Strip(Val(AfterComma))
    ELSE <<>>

C6_OriginRequired ==
    (Returned /\ ~Truthy(a_state) /\ (AfterComma = None \/ Blank(Val(AfterComma)))) =>
        /\ a_ret = <<ERR_ORIGIN>>
        /\ a_calls = <<>>
        /\ a_risk = None

\* the query "apples," with origin_state "" is refused
C6_Witness ==
    /\ Returned
    /\ a_query = <<"a","p","p","l","e","s",",">>
    /\ a_state = Some(<<>>)
    /\ a_ret = <<ERR_ORIGIN>>

\* C7: a one-string query c + ", " + s, with c free of commas and s non-empty
\* and trimmed, returns what the call with the separate arguments c and s
\* returns.
C7_OneStringSameAsTwo ==
    (Returned /\ a_state = None /\ AfterComma /= None) =>
        LET rest == Val(AfterComma)
        IN  (Len(rest) >= 2 /\ rest[1] = " " /\ Trimmed(Tail(rest))) =>
                a_ret = fruit_fly_assessment(fruit_fly_db, BeforeComma,
                                             Some(Tail(rest))).ret

\* "apples, WA" on a table with Apple: the risk response for Apple from WA
C7_Witness ==
    /\ Returned
    /\ a_state = None
    /\ a_query = <<"a","p","p","l","e","s",","," ","W","A">>
    /\ a_risk /= None
    /\ Val(a_risk).mff_risk
    /\ a_ret[2].arg = <<"W","A">>

\* C8: every returned text, the errors included, has the pre-entry line on
\* the Notice of Intention to lodge 24 h before the consignment arrives.
C8_FooterInEveryResponse ==
    Returned => \E i \in 1..Len(a_ret) : a_ret[i] = FOOTER_NOI

\* the response is the assessment, not an error message
NonError == Returned /\ a_ret[1].text = "**Commodity**: {commodity.name}"

\* how many lines of the response have the text
Count(text) == Cardinality({i \in 1..Len(a_ret) : a_ret[i].text = text})

\* C18: an assessment has exactly one verdict section: with qff_risk or
\* mff_risk the FRUIT FLY RISK DETECTED section with the Required ICA
\* Conditions, Treatment Requirements and Documentation Required sections,
\* and with neither the NO FRUIT FLY RISK section and none of those three.
C18_OneVerdictSection ==
    NonError =>
        /\ a_risk /= None
        /\ \A n \in {IF Val(a_risk).qff_risk \/ Val(a_risk).mff_risk THEN 1 ELSE 0} :
               /\ Count("**FRUIT FLY RISK DETECTED**:") = n
               /\ Count("**Required ICA Conditions**:") = n
               /\ Count("**Treatment Requirements**:") = n
               /\ Count("**Documentation Required**:") = n
               /\ Count("**NO FRUIT FLY RISK**:") = 1 - n

\* Grape from WA: MFF risk alone, and the response has the risk section
C18_Witness ==
    /\ NonError
    /\ Val(a_risk).mff_risk
    /\ ~Val(a_risk).qff_risk
    /\ Count("**FRUIT FLY RISK DETECTED**:") = 1
    /\ Count("- **ICA-2**: Mediterranean Fruit Fly Hosts") = 1

\* the commodity text of the call: the query, or the part before its comma
\* when the origin state comes after the comma
GivenCommodity ==
    IF ~Truthy(a_state) /\ AfterComma /= None THEN BeforeComma ELSE a_query

\* an origin state is given, as the argument or after the comma
OriginGiven ==
    Truthy(a_state) \/ (AfterComma /= None /\ ~Blank(Val(AfterComma)))

\* C9: with an origin state given and a normalized commodity name that has
\* neither an exact match nor a search match, the call returns the not-found
\* error with that name and does not call the risk assessment.
C9_NotFoundError ==
    LET name == _normalize_commodity_name(GivenCommodity)
    IN  (Returned /\ OriginGiven
         /\ get_commodity_info(fruit_fly_db, name) = None
         /\ search_commodities(fruit_fly_db, name) = <<>>) =>
            /\ a_ret = <<ErrNotFound(name)>>
            /\ \A i \in 1..Len(a_calls) : a_calls[i] /= "assess_fruit_fly_risk"
            /\ a_risk = None

\* "Table Grapes" from WA on a table without grapes: 'grape' is not found
C9_Witness ==
    /\ Returned
    /\ a_query = <<"T","a","b","l","e"," ","G","r","a","p","e","s">>
    /\ a_state = Some(<<"W","A">>)
    /\ fruit_fly_db /= <<>>
    /\ a_ret = <<ErrNotFound(<<"g","r","a","p","e">>)>>

----------------------------------------------------------------------------
(* Properties of the normaliser (SpecNormalize). *)

\* c and d are the same letter in either case, or the same character
SameLetter(c, d) == c = d \/ UpperChar(c) = d \/ c = UpperChar(d)

\* x is p in some letter case with whitespace around it
IsVariant(x, p) ==
    \E a \in 0..(Len(x) - Len(p)) :
        /\ \A i \in 1..a : x[i] \in Whitespace
        /\ \A i \in (a + Len(p) + 1)..Len(x) : x[i] \in Whitespace
        /\ \A i \in 1..Len(p) : SameLetter(x[a + i], p[i])

\* C10: a variant of a plural of the table, in any letter case and padding,
\* is converted to the singular of that plural.
C10_PluralToSingular ==
    n_ret /= None =>
        \A p \in PluralNames :
            IsVariant(n_name, p) => n_ret = Some(plural_to_singular[p])

\* " APPLES" gives "apple"
C10_Witness ==
    /\ n_name = <<" ","A","P","P","L","E","S">>
    /\ n_ret = Some(<<"a","p","p","l","e">>)

\* no plural of the table is the name in some letter case and padding
NoPluralEntry == \A p \in PluralNames : ~IsVariant(n_name, p)

IsLower(s) == \A i \in 1..Len(s) : s[i] \notin DOMAIN UpperToLower

----------------------------------------------------------------------------
(* Properties of the database (Spec). *)

\* C2: the pest table lists neither fruit fly for TAS: once the pests are
\* loaded get_fruit_flies_by_state("TAS") is empty, and no commodity of the
\* host table gets a QFF or MFF risk for origin TAS.
C2_TasmaniaFree ==
    pc /= "new" =>
        /\ \A i \in 1..Len(pest_info) :
               pest_info[i].key \in {S_QFF, S_MFF} =>
                   ~InList(<<"T","A","S">>, pest_info[i].info.present_in)
        /\ get_fruit_flies_by_state(Tables, <<"T","A","S">>).ret = <<>>
        /\ (op.method = "get_fruit_flies_by_state" /\ op.arg = <<"T","A","S">>)
               => result = <<>>
        /\ \A e \in HostEntries :
               LET risk == assess_fruit_fly_risk(HostTable(<<e>>), e.name, <<"T","A","S">>)
               IN  ~risk.qff_risk /\ ~risk.mff_risk

\* get_fruit_flies_by_state("TAS") was called on the loaded database
C2_Witness ==
    /\ pc = "ready"
    /\ Len(pest_info) = Len(TABLE_1)
    /\ op = [method |-> "get_fruit_flies_by_state", arg |-> <<"T","A","S">>]
    /\ result = <<>>

\* C3: once the constructor has returned, no step changes commodities,
\* ir_info, ica_info or pest_info.
C3_LookupsDoNotMutate ==
    [][pc = "ready" =>
          <<commodities, ir_info, ica_info, pest_info>>'
              = <<commodities, ir_info, ica_info, pest_info>>]_vars

\* a lookup that misses and a search that hits, on a loaded database
C3_Witness ==
    /\ pc = "ready"
    /\ commodities /= <<>>
    /\ ir_info /= <<>>
    /\ op = [method |-> "lookup", arg |-> <<"h","o","p">>]
    /\ result = None

\* C4: every key of commodities is the lower-cased name of its entry, and no
\* two entries have the same lower-cased name.
C4_KeyIsLowerName ==
    /\ \A i \in 1..Len(commodities) :
           commodities[i].key = Lower(commodities[i].info.name)
    /\ \A i, j \in 1..Len(commodities) :
           Lower(commodities[i].info.name) = Lower(commodities[j].info.name) => i = j

\* two files were processed and left two commodities, one of them with a
\* name in upper case
C4_Witness ==
    /\ nfiles = 2
    /\ Len(commodities) >= 2
    /\ \E i \in 1..Len(commodities) :
           /\ commodities[i].info.name = <<"A","P","P","L","E">>
           /\ commodities[i].key = <<"a","p","p","l","e">>
           /\ commodities[i].info.ir_numbers /= None

\* the commodities whose name is q in some letter case, q trimmed
NamedLike(q) ==
    {i \in 1..Len(commodities) : Lower(commodities[i].info.name) = Lower(Strip(q))}

\* C5: lookup(q) returns the one commodity whose name is q up to letter case
\* and surrounding whitespace of q, None when there is none, and so the same
\* for two queries that differ only in those.
C5_LookupCaseInsensitive ==
    (pc = "ready" /\ op.method = "lookup") =>
        /\ NamedLike(op.arg) = {} => result = None
        /\ NamedLike(op.arg) /= {} =>
               /\ Cardinality(NamedLike(op.arg)) = 1
               /\ \A i \in NamedLike(op.arg) : result = Some(commodities[i].info)
        /\ \A q \in CommodityQueries :
               IsVariant(q, Lower(Strip(op.arg))) => lookup(Tables, q).ret = result

\* lookup(" APPLE ") finds the commodity filed under "apple"
C5_Witness ==
    /\ pc = "ready"
    /\ op = [method |-> "lookup", arg |-> <<" ","A","P","P","L","E"," ">>]
    /\ result /= None
    /\ Val(result).name = <<"A","p","p","l","e">>

\* C13: without the directory mnt/data/cleaned the construction ends with
\* RuntimeError "Cleaned data directory not found. Run data_cleaner.py first.",
\* with the pest information loaded and no commodity, IR or ICA entry, and
\* there is no database to call afterwards.
C13_NoDirectoryRuntimeError ==
    pc = "failed" =>
        /\ op.method = "_load_data"
        /\ result = Some(ERR_NO_DIRECTORY)
        /\ Len(pest_info) = Len(TABLE_1)
        /\ \A i \in 1..Len(TABLE_1) : DictHas(pest_info, TABLE_1[i].code)
        /\ commodities = <<>>
        /\ ir_info = <<>>
        /\ ica_info = <<>>
        /\ nfiles = 0
        /\ ~ENABLED Next

\* the construction has failed on the missing directory, knowing QFF
C13_Witness ==
    /\ pc = "failed"
    /\ result = Some(ERR_NO_DIRECTORY)
    /\ DictHas(pest_info, S_QFF)
    /\ commodities = <<>>

\* two dicts are equal: the same keys with the same values, in any order
SameDict(d, e) == {d[i] : i \in 1..Len(d)} = {e[i] : i \in 1..Len(e)}

\* the tables after the files f and then g are loaded into the present ones
LoadedBoth(f, g) == _load_cleaned_data(_load_cleaned_data(Tables, f), g)

\* the files that load without an exception
GoodFiles == {data \in CleanedFiles : data.readable /\ ~data.raises}

\* C14: the tables that result from loading cleaned files do not depend on
\* the order of the files: any two files of different tables, loaded one
\* after the other, leave the same commodities, ir_info and ica_info in
\* either order.
C14_LoadOrderIndependent ==
    (pc = "loading" /\ nfiles = 0) =>
        \A f \in GoodFiles : \A g \in GoodFiles :
            f.name /= g.name =>
                /\ SameDict(LoadedBoth(f, g).c, LoadedBoth(g, f).c)
                /\ SameDict(LoadedBoth(f, g).ir, LoadedBoth(g, f).ir)
                /\ SameDict(LoadedBoth(f, g).ica, LoadedBoth(g, f).ica)

\* the files of the seeds and grains index and of the other restricted
\* matter index
IndexFiles == {data \in GoodFiles : data.name \in {TN_SEEDS, TN_OTHER}}

\* the keys the rows of an index file name: the Commodity column, where it
\* is not empty, stripped and in lower case
IndexRowKeys(rows) ==
    {Lower(Strip(Val(rows[k].Commodity))) :
         k \in {j \in 1..Len(rows) : Truthy(rows[j].Commodity)}}

\* entry e of before is in after at the same place, with at most ir_numbers,
\* pests and commodity_type changed
OnlyIndexFieldsChanged(before, after, i) ==
    /\ i <= Len(after)
    /\ after[i].key = before[i].key
    /\ after[i].info.name = before[i].info.name
    /\ after[i].info.botanical_name = before[i].info.botanical_name
    /\ after[i].info.is_fruit_fly_host = before[i].info.is_fruit_fly_host
    /\ after[i].info.qff_host = before[i].info.qff_host
    /\ after[i].info.mff_host = before[i].info.mff_host
    /\ after[i].info.restricted_entry = before[i].info.restricted_entry
    /\ after[i].info.phylloxera_info = before[i].info.phylloxera_info

\* C15: _process_seeds_and_grains and _process_other_restricted_matter, on
\* any table the loading reaches and any rows, change only ir_numbers, pests
\* and commodity_type of an entry that exists already, and nothing of an
\* entry no row names.
C15_IndexUpdateFrame ==
    pc = "loading" =>
        \A data \in IndexFiles :
            \A after \in {_load_cleaned_data(Tables, data).c} :
                \A i \in 1..Len(commodities) :
                    /\ OnlyIndexFieldsChanged(commodities, after, i)
                    /\ commodities[i].key \notin IndexRowKeys(data.rows)
                           => after[i] = commodities[i]

\* a fruit fly host that an index file has given IR numbers: "Apple" with
\* its host flags, botanical name and the pests of the index row
C15_Witness ==
    \E i \in 1..Len(commodities) :
        /\ commodities[i].info.name = <<"A","p","p","l","e">>
        /\ commodities[i].info.qff_host
        /\ commodities[i].info.botanical_name = Some(<<"M","a","l","u","s">>)
        /\ commodities[i].info.ir_numbers = Some(<< <<"I","R","2">> >>)
        /\ commodities[i].info.commodity_type = "equipment"

\* the files of the phylloxera host table
PhylloxeraFiles == {data \in GoodFiles : data.name = TN_PHYLLOXERA}

\* the keys the rows of a phylloxera file name: the Host column, where it is
\* not empty, stripped and in lower case
HostRowKeys(rows) ==
    {Lower(Strip(Val(rows[k].Host))) :
         k \in {j \in 1..Len(rows) : Truthy(rows[j].Host)}}

\* C16: _process_phylloxera_hosts, on any table the loading reaches and any
\* rows, keeps the keys of commodities, changes no field but phylloxera_info,
\* and changes that only in entries whose key is the lower-cased Host of a
\* row; rows without a Host change nothing.
C16_PhylloxeraFrame ==
    pc = "loading" =>
        \A data \in PhylloxeraFiles :
            \A after \in {_load_cleaned_data(Tables, data).c} :
                /\ DictKeys(after) = DictKeys(commodities)
                /\ \A i \in 1..Len(commodities) :
                       /\ [after[i].info EXCEPT !.phylloxera_info = None]
                              = [commodities[i].info EXCEPT !.phylloxera_info = None]
                       /\ commodities[i].key \notin HostRowKeys(data.rows)
                              => after[i] = commodities[i]
                /\ HostRowKeys(data.rows) = {} => after = commodities

\* the phylloxera table has given the zone requirements to "Vine seed" of the
\* fruit fly table, named " vine Seed " in its row
C16_Witness ==
    \E i \in 1..Len(commodities) :
        /\ commodities[i].key = <<"v","i","n","e"," ","s","e","e","d">>
        /\ commodities[i].info.is_fruit_fly_host
        /\ commodities[i].info.phylloxera_info /= None
        /\ Val(commodities[i].info.phylloxera_info).pez_requirements = Some(<<"a">>)

\* C17 as stated: a commodity is flagged is_fruit_fly_host exactly when it
\* is flagged qff_host or mff_host.
C17_HostIffSpeciesHost ==
    \A i \in 1..Len(commodities) :
        commodities[i].info.is_fruit_fly_host
            <=> (commodities[i].info.qff_host \/ commodities[i].info.mff_host)

\* C17 amended: a commodity flagged qff_host or mff_host is flagged
\* is_fruit_fly_host; a row of the host table that names neither species
\* makes a host of no species.
C17_SpeciesHostIsHost ==
    \A i \in 1..Len(commodities) :
        (commodities[i].info.qff_host \/ commodities[i].info.mff_host)
            => commodities[i].info.is_fruit_fly_host

\* the host table has made a QFF host next to a host of no species
C17_Witness ==
    /\ \E i \in 1..Len(commodities) :
           /\ commodities[i].info.qff_host
           /\ ~commodities[i].info.mff_host
           /\ commodities[i].info.is_fruit_fly_host
    /\ \E i \in 1..Len(commodities) :
           /\ commodities[i].info.is_fruit_fly_host
           /\ ~commodities[i].info.qff_host
           /\ ~commodities[i].info.mff_host

\* q occurs in s, letter case aside: some stretch of s is q
OccursIn(q, s) ==
    \E a \in 0..(Len(s) - Len(q)) : \A j \in 1..Len(q) : SameLetter(s[a + j], q[j])

\* the places of commodities whose key has the query, trimmed, in it
Hits(q) == {i \in 1..Len(commodities) : OccursIn(Strip(q), commodities[i].key)}

\* the k-th place of a set of places, in table order
Nth(places, k) == CHOOSE i \in places : Cardinality({j \in places : j < i}) = k - 1

\* C19: search(q) returns the commodities whose key has q, trimmed and in
\* lower case, as a substring, in the order of the table; what lookup(q)
\* finds is among them, and an empty or blank q returns every commodity.
C19_SearchBySubstring ==
    (pc = "ready" /\ op.method = "search") =>
        /\ Len(result) = Cardinality(Hits(op.arg))
        /\ \A k \in 1..Len(result) :
               result[k] = commodities[Nth(Hits(op.arg), k)].info
        /\ \A found \in {lookup(Tables, op.arg).ret} :
               found /= None => \E k \in 1..Len(result) : result[k] = Val(found)
        /\ Blank(op.arg) => result = DictValues(commodities)

\* search("Vine") finds the one commodity with "vine" in its key among two,
\* and lookup("Vine") finds none
C19_Witness ==
    /\ pc = "ready"
    /\ op = [method |-> "search", arg |-> <<"V","i","n","e">>]
    /\ Len(commodities) = 2
    /\ Len(result) = 1
    /\ result[1] = commodities[2].info
    /\ lookup(Tables, op.arg).ret = None

\* C20: the applicable_irs of every ICA of ica_info has every IR the ICA
\* applies to: for an ICA number n of ica_info and an IR of ir_info with an
\* ICA numbered n among its applicable_icas, the number of the IR is in
\* ica_info[n].applicable_irs.
C20_ApplicableIrsComplete ==
    \A a \in 1..Len(ica_info) : \A r \in 1..Len(ir_info) :
        (\E k \in 1..Len(ir_info[r].info.applicable_icas) :
             ir_info[r].info.applicable_icas[k].number = ica_info[a].key)
            => InList(ir_info[r].info.number, ica_info[a].info.applicable_irs)

\* the last step was a cleaned file whose loading raised
LoadRaised == op.method = "_load_cleaned_data" /\ result = Some(ERR_LOADING)

\* C12: an exception while loading a cleaned file is caught and printed: it
\* does not end _load_data or the constructor, and the loop goes on to load
\* the files that remain.
C12_LoadFailureCaught ==
    LoadRaised =>
        /\ pc \in {"loading", "ready"}
        /\ (pc = "loading" /\ nfiles < MaxFiles) =>
               ENABLED (\E data \in GoodFiles : LoadCleanedData(data))

\* a file was loaded, the next one raised, and the constructor has returned
\* with the commodities of the first
C12_Witness ==
    /\ LoadRaised
    /\ pc = "ready"
    /\ nfiles = 2
    /\ \E i \in 1..Len(commodities) : commodities[i].info.ir_numbers /= None

====
